---------------------------- MODULE Spec2Model ----------------------------
(***************************************************************************)
(* hitman: a file-based HTTP request runner.                               *)
(*                                                                         *)
(* Two programs are modelled:                                              *)
(*   - the full-screen terminal front-end, src/ui/app.rs (App::run and the *)
(*     background task make_request), specification Spec;                  *)
(*   - the command line front-end, src/main.rs (main and watch_mode),      *)
(*     specification SpecMain.                                             *)
(*                                                                         *)
(* The crates load_env, substitute, extract_variables, update_data and the *)
(* command line make_request are not part of the two files; they are       *)
(* modelled from the written specification and marked as such.             *)
(***************************************************************************)
EXTENDS Naturals, Sequences, FiniteSets, TLC

(***************************************************************************)
(* Bounds of the model.                                                    *)
(***************************************************************************)
\* transport tasks spawned in one TUI session
MaxTasks == 2
\* length of the override list of one resolution session
MaxOptions == 2
\* file-change notifications delivered in one watch session
MaxNotifs == 3
\* runs of the command line make_request in one process
MaxRuns == 3

(***************************************************************************)
(* TOML values (toml::Value), options and templates.                       *)
(***************************************************************************)
Absent == [k |-> "Absent"]
Str(s) == [k |-> "String", s |-> s]
Int(t) == [k |-> "Integer", text |-> t]
Tbl(name, value) == [k |-> "Table", name |-> name, value |-> value]
Arr(items) == [k |-> "Array", items |-> items]

None == [k |-> "None"]
Some(v) == [k |-> "Some", v |-> v]

\* Display of a toml::Value: strings are quoted, integers are decimal.
to_string(v) ==
    CASE v.k = "String" -> "\"" \o v.s \o "\""
      [] v.k = "Integer" -> v.text
      [] v.k = "Table" -> "{table}"
      [] v.k = "Array" -> "[array]"
      [] OTHER -> ""

\* The project on disk: request files, their templates, the configuration.
Files == {"a.http", "b.http", "c.http"}
Targets == {"dev", "prod"}
Names == {"env", "token", "host", "cfg"}

Placeholder(name, fallback) == [name |-> name, fallback |-> fallback]

Template(file_path) ==
    CASE file_path = "a.http" ->
            << Placeholder("env", None), Placeholder("token", Some("dflt")) >>
      [] file_path = "b.http" -> << Placeholder("host", None) >>
      [] OTHER -> << Placeholder("cfg", None) >>

Candidates ==
    << Tbl(Str("prod"), Str("p")),
       Tbl(Str("dev"), Absent),
       Tbl(Str("num"), Int("7")),
       Str("s") >>

GlobalConfig ==
    [n \in Names |->
        CASE n = "env" -> Arr(Candidates)
          [] n = "host" -> Str("h")
          [] n = "cfg" -> Tbl(Str("x"), Absent)
          [] OTHER -> Absent]

TargetConfig(target) ==
    [n \in Names |-> IF target = "dev" /\ n = "host" THEN Str("hd") ELSE Absent]

\* Values a response body can carry for the extraction rule of "token".
ExtractVals == {"t1"}
\* Text the user can type into a prompt.
PromptInputs == {"x"}

(***************************************************************************)
(* Environment store and substitution engine.                              *)
(***************************************************************************)
RECURSIVE OverrideOf(_, _)
OverrideOf(options, n) ==
    IF options = << >> THEN Absent
    ELSE LET last == options[Len(options)] IN
         IF last[1] = n THEN Str(last[2])
         ELSE OverrideOf(SubSeq(options, 1, Len(options) - 1), n)

\* load_env: overrides over persisted data over target over global.
LoadEnv(options, persisted, target) ==
    [n \in Names |->
        IF OverrideOf(options, n) # Absent THEN OverrideOf(options, n)
        ELSE IF persisted[n] # Absent THEN persisted[n]
        ELSE IF TargetConfig(target)[n] # Absent THEN TargetConfig(target)[n]
        ELSE GlobalConfig[n]]

Scalar(v) == IF v.k = "String" THEN v.s ELSE to_string(v)

RECURSIVE SubstituteFrom(_, _, _, _)
SubstituteFrom(template, env, i, acc) ==
    IF i > Len(template) THEN [tag |-> "Ok", text |-> acc]
    ELSE LET p == template[i]
             v == env[p.name]
         IN CASE v.k = "Absent" ->
                    [tag |-> "ValueNotFound", key |-> p.name,
                     fallback |-> p.fallback]
              [] v.k = "Array" ->
                    [tag |-> "MultipleValuesFound", key |-> p.name,
                     values |-> v.items]
              [] v.k = "Table" ->
                    [tag |-> "Other", key |-> p.name]
              [] OTHER ->
                    SubstituteFrom(template, env, i + 1,
                                   Append(acc, Scalar(v)))

substitute(template, env) == SubstituteFrom(template, env, 1, << >>)

\* update_data: merge the pairs into the persisted layer, last write wins.
RECURSIVE update_data(_, _)
update_data(persisted, vars) ==
    IF vars = << >> THEN persisted
    ELSE update_data([persisted EXCEPT ![vars[1][1]] = Str(vars[1][2])],
                     Tail(vars))

\* extract_variables: the pairs the rules find in the decoded body.
extract_variables(json) ==
    IF json = None THEN << >> ELSE << <<"token", json.v>> >>

EmptyData == [n \in Names |-> Absent]

(***************************************************************************)
(* State of the terminal front-end (struct App, the spawned tasks, the     *)
(* files they share) and of App::run.                                      *)
(***************************************************************************)
VARIABLES
    state,            \* App.state: AppState
    error,            \* App.error: Option<String>
    should_quit,      \* App.should_quit
    target,           \* App.target
    output_view,      \* App.output_view: the request/response shown
    tasks,            \* the tasks spawned by send_request, by handle
    data,             \* the persisted data layer on disk
    persistedTarget,  \* the active-target pointer on disk
    screen,           \* whether the screen is entered
    rpc,              \* position of App::run
    runResult,        \* what App::run returned
    calls             \* the calls made by the last step of App::run

\* State of the command line front-end (main, watch_mode and its watcher).
VARIABLES
    args,             \* the parsed command line
    mpc,              \* position of main / watch_mode
    result,           \* what main returned
    mainEnv,          \* `env` of main: the environment it loaded
    chan,             \* the mpsc channel of watch_mode, capacity 1
    watcherQ,         \* results the watcher still has to hand to its callback
    notifs,           \* the notifications raised so far, with their time
    runs,             \* the runs of make_request started so far
    cancelled         \* where the user cancelled a prompt, if anywhere

appVars == << state, error, should_quit, target, output_view, tasks,
              screen, rpc, runResult, calls >>
mainVars == << args, mpc, result, mainEnv, chan, watcherQ, notifs, runs,
               cancelled >>
vars == << state, error, should_quit, target, output_view, tasks, data,
           persistedTarget, screen, rpc, runResult, calls,
           args, mpc, result, mainEnv, chan, watcherQ, notifs, runs,
           cancelled >>

Idle == [tag |-> "Idle"]
PendingValue(file_path, key, pending_options, pending_state) ==
    [tag |-> "PendingValue", file_path |-> file_path, key |-> key,
     pending_options |-> pending_options, pending_state |-> pending_state]
RunningRequest(handle) == [tag |-> "RunningRequest", handle |-> handle]
SelectTargetState(items) == [tag |-> "SelectTarget", items |-> items]

PromptState(fallback) == [tag |-> "Prompt", fallback |-> fallback]
SelectState(values) == [tag |-> "Select", values |-> values]

\* enum Intent
NoIntent == [tag |-> "None"]
Quit == [tag |-> "Quit"]
PrepareRequest(file_path, options) ==
    [tag |-> "PrepareRequest", file_path |-> file_path, options |-> options]
SendRequest(file_path, prepared_request) ==
    [tag |-> "SendRequest", file_path |-> file_path,
     prepared_request |-> prepared_request]
AskForValue(key, file_path, pending_options, params) ==
    [tag |-> "AskForValue", key |-> key, file_path |-> file_path,
     pending_options |-> pending_options, params |-> params]
ChangeState(s) == [tag |-> "ChangeState", state |-> s]
SelectTarget == [tag |-> "SelectTarget"]
AcceptSelectTarget(s) == [tag |-> "AcceptSelectTarget", s |-> s]
EditRequest == [tag |-> "EditRequest"]
ShowError(err) == [tag |-> "ShowError", err |-> err]

\* Results of a dispatch: Ok(Option<Intent>) or Err(message).  The text of
\* an I/O error (a file, the terminal) is "io".
Ok(app, intent) == [app |-> app, ok |-> TRUE, next |-> intent, err |-> ""]
Err(app, msg) == [app |-> app, ok |-> FALSE, next |-> NoIntent, err |-> msg]

\* What the environment decides during one step of the run loop.
Oracle ==
    [loadEnvOk : BOOLEAN, readOk : BOOLEAN, envsOk : BOOLEAN,
     setTargetOk : BOOLEAN, editorSet : BOOLEAN, hasSelected : BOOLEAN,
     leaveOk : BOOLEAN, enterOk : BOOLEAN, clearOk : BOOLEAN]
AllOk ==
    [loadEnvOk |-> TRUE, readOk |-> TRUE, envsOk |-> TRUE,
     setTargetOk |-> TRUE, editorSet |-> TRUE, hasSelected |-> TRUE,
     leaveOk |-> TRUE, enterOk |-> TRUE, clearOk |-> TRUE]

\* A task as send_request spawns it: suspended in the transport call.
\* dataAtSend remembers the persisted layer at that moment.
NewTask ==
    [pc |-> "transport", aborted |-> FALSE, responded |-> FALSE,
     json |-> None, vars |-> << >>, dataAtSend |-> data]

IsFinished(t) == t.pc \in {"done", "failed", "cancelled"}
\* Suspended at an await: the only places where an abort stops a task.
AtAwait(t) == t.pc \in {"transport", "json"}

(***************************************************************************)
(* App::try_request, App::send_request, App::dispatch.  `app` is the part  *)
(* of the state a handler can change; `o` is what the environment decides. *)
(***************************************************************************)
Called(app, call) == [app EXCEPT !.calls = Append(@, call)]

\* A missing value with an inline fallback is filled in and sent at once.
try_requestFallbackSent(app, file_path, options, o) ==
    LET a1 == Called(app, [fn |-> "load_env", options |-> options])
        env == LoadEnv(options, data, persistedTarget)
        a2 == Called(a1, [fn |-> "substitute", env |-> env])
        res == substitute(Template(file_path), env)
    IN IF ~o.loadEnvOk THEN Err(a1, "io")
       ELSE IF ~o.readOk THEN Err(a1, "io")
       ELSE CASE res.tag = "Ok" ->
                    Ok(a2, SendRequest(file_path, res.text))
              [] res.tag = "MultipleValuesFound" ->
                    Ok(a2, AskForValue(res.key, file_path, options,
                                       SelectState(res.values)))
              [] res.tag = "ValueNotFound" ->
                    IF res.fallback = None
                    THEN Ok(a2, AskForValue(res.key, file_path, options,
                                            PromptState(res.fallback)))
                    ELSE Ok(a2, SendRequest(file_path, << res.fallback.v >>))
              [] OTHER -> Ok(a2, ShowError("substitute"))

try_request(app, file_path, options, o) ==
    LET a1 == Called(app, [fn |-> "load_env", options |-> options])
        env == LoadEnv(options, data, persistedTarget)
        a2 == Called(a1, [fn |-> "substitute", env |-> env])
        res == substitute(Template(file_path), env)
    IN IF ~o.loadEnvOk THEN Err(a1, "io")
       ELSE IF ~o.readOk THEN Err(a1, "io")
       ELSE CASE res.tag = "Ok" ->
                    Ok(a2, SendRequest(file_path, res.text))
              [] res.tag = "MultipleValuesFound" ->
                    Ok(a2, AskForValue(res.key, file_path, options,
                                       SelectState(res.values)))
              [] res.tag = "ValueNotFound" ->
                    Ok(a2, AskForValue(res.key, file_path, options,
                                       PromptState(res.fallback)))
              [] OTHER -> Ok(a2, ShowError("substitute"))

send_request(app, file_path, prepared_request) ==
    LET handle == Len(app.tasks) + 1
        spawned == [Called(app, [fn |-> "spawn", file_path |-> file_path,
                                 buf |-> prepared_request])
                      EXCEPT !.tasks = Append(@, NewTask)]
    IN Ok(spawned, ChangeState(RunningRequest(handle)))

EditRequestArm(app, o) ==
    IF ~o.hasSelected THEN Ok(app, NoIntent)
    ELSE IF ~o.editorSet THEN Err(app, "EDITOR environment variable not set")
    ELSE IF ~o.leaveOk THEN Err(app, "io")
    ELSE IF ~o.enterOk THEN Err([app EXCEPT !.screen = FALSE], "io")
    ELSE IF ~o.clearOk THEN Err(app, "io")
    ELSE Ok(app, NoIntent)

dispatch(app, intent, o) ==
    CASE intent.tag = "Quit" ->
            Ok([app EXCEPT !.should_quit = TRUE], NoIntent)
      [] intent.tag = "ChangeState" ->
            Ok([app EXCEPT !.error = None, !.state = intent.state], NoIntent)
      [] intent.tag = "PrepareRequest" ->
            try_request(app, intent.file_path, intent.options, o)
      [] intent.tag = "SendRequest" ->
            send_request(app, intent.file_path, intent.prepared_request)
      [] intent.tag = "AskForValue" ->
            Ok(app, ChangeState(PendingValue(intent.file_path, intent.key,
                                             intent.pending_options,
                                             intent.params)))
      [] intent.tag = "SelectTarget" ->
            IF ~o.envsOk THEN Err(app, "io")
            ELSE Ok(app, ChangeState(SelectTargetState(Targets)))
      [] intent.tag = "AcceptSelectTarget" ->
            IF ~o.setTargetOk THEN Err(app, "io")
            ELSE Ok([app EXCEPT !.persistedTarget = intent.s,
                                !.target = intent.s],
                    ChangeState(Idle))
      [] intent.tag = "EditRequest" -> EditRequestArm(app, o)
      [] OTHER \* ShowError
         -> Ok([app EXCEPT !.error = Some(intent.err)], NoIntent)

\* The loop ends at an error of dispatch without showing it.
RECURSIVE RunIntentsDropsError(_, _, _)
RunIntentsDropsError(app, pending_intent, o) ==
    IF pending_intent = NoIntent THEN app
    ELSE LET r == dispatch(app, pending_intent, o)
         IN RunIntentsDropsError(r.app, IF r.ok THEN r.next ELSE NoIntent, o)

\* The loop of App::run over pending intents.
RECURSIVE RunIntents(_, _, _)
RunIntents(app, pending_intent, o) ==
    IF pending_intent = NoIntent THEN app
    ELSE LET r == dispatch(app, pending_intent, o)
         IN RunIntents(r.app, IF r.ok THEN r.next ELSE ShowError(r.err), o)

(***************************************************************************)
(* App::handle_event, one operator per arm of the match on App.state.      *)
(* Each returns the App as the arm leaves it and the intent it returns.    *)
(***************************************************************************)
Handled(app, intent) == [app |-> app, intent |-> intent]

\* What a popup component makes of a key: nothing, Abort or Accept(item).
CNone == [tag |-> "None"]
CAbort == [tag |-> "Abort"]
CAccept(item) == [tag |-> "Accept", item |-> item]

\* The `value` field is taken in its textual form, a string included.
AcceptedValueTextual(selected) ==
    IF selected.k = "Table"
    THEN CASE selected.value.k = "Absent" -> None
           [] OTHER -> Some(to_string(selected.value))
    ELSE Some(to_string(selected))

\* The override value of an accepted candidate (None: no `value` field).
AcceptedValue(selected) ==
    IF selected.k = "Table"
    THEN CASE selected.value.k = "String" -> Some(selected.value.s)
           [] selected.value.k = "Absent" -> None
           [] OTHER -> Some(to_string(selected.value))
    ELSE Some(to_string(selected))

\* The accepted pair replaces the list instead of being appended to it.
PushOptionAlone(app, value) ==
    [app EXCEPT !.state.pending_options = << << app.state.key, value >> >>]

PushOption(app, value) ==
    [app EXCEPT !.state.pending_options =
                    Append(@, << app.state.key, value >>)]

HandlePendingSelect(app, ci) ==
    CASE ci.tag = "Abort" -> Handled(app, ChangeState(Idle))
      [] ci.tag = "Accept" ->
            LET value == AcceptedValue(ci.item) IN
            IF value = None
            THEN Handled(app, ShowError("Replacement not found: "
                                        \o app.state.key))
            ELSE LET pushed == PushOption(app, value.v) IN
                 Handled(pushed,
                         PrepareRequest(pushed.state.file_path,
                                        pushed.state.pending_options))
      [] OTHER -> Handled(app, NoIntent)

\* Abort submits the overrides gathered so far instead of dropping them.
HandlePendingPromptAbortSubmits(app, ci) ==
    CASE ci.tag = "Abort" ->
            Handled(app, PrepareRequest(app.state.file_path,
                                        app.state.pending_options))
      [] ci.tag = "Accept" ->
            LET pushed == PushOption(app, ci.item) IN
            Handled(pushed,
                    PrepareRequest(pushed.state.file_path,
                                   pushed.state.pending_options))
      [] OTHER -> Handled(app, NoIntent)

HandlePendingPrompt(app, ci) ==
    CASE ci.tag = "Abort" -> Handled(app, ChangeState(Idle))
      [] ci.tag = "Accept" ->
            LET pushed == PushOption(app, ci.item) IN
            Handled(pushed,
                    PrepareRequest(pushed.state.file_path,
                                   pushed.state.pending_options))
      [] OTHER -> Handled(app, NoIntent)

HandleIdle(app, sel, km) ==
    IF sel.tag = "Accept"
    THEN Handled(app, PrepareRequest(sel.item, << >>))
    ELSE CASE km = "Editor" -> Handled(app, EditRequest)
           [] km = "Abort" -> Handled(app, Quit)
           [] km = "SelectTarget" -> Handled(app, SelectTarget)
           [] OTHER -> Handled(app, NoIntent)

\* JoinHandle::abort: a task suspended at an await is dropped there, a task
\* that is running (or has finished) is not interrupted.
abort(t) ==
    [t EXCEPT !.aborted = TRUE,
              !.pc = IF AtAwait(t) THEN "cancelled" ELSE @]

\* The Abort key quits the application and leaves the task alone.
HandleRunningRequestQuits(app, km) ==
    IF km = "Abort" THEN Handled(app, Quit)
    ELSE Handled(app, NoIntent)

\* The Abort key without handle.abort().
HandleRunningRequestNoAbort(app, km) ==
    IF km = "Abort" THEN Handled(app, ChangeState(Idle))
    ELSE Handled(app, NoIntent)

HandleRunningRequest(app, km) ==
    IF km = "Abort"
    THEN Handled([app EXCEPT !.tasks[app.state.handle] = abort(@)],
                 ChangeState(Idle))
    ELSE Handled(app, NoIntent)

\* The accepted entry is shown as the target before set_target has run.
HandleSelectTargetEager(app, ci) ==
    CASE ci.tag = "Abort" -> Handled(app, ChangeState(Idle))
      [] ci.tag = "Accept" ->
            Handled([app EXCEPT !.target = ci.item],
                    AcceptSelectTarget(ci.item))
      [] OTHER -> Handled(app, NoIntent)

HandleSelectTarget(app, ci) ==
    CASE ci.tag = "Abort" -> Handled(app, ChangeState(Idle))
      [] ci.tag = "Accept" -> Handled(app, AcceptSelectTarget(ci.item))
      [] OTHER -> Handled(app, NoIntent)

KeyMappings == {"Editor", "Abort", "SelectTarget", "Other"}

SeqRange(q) == {q[i] : i \in 1..Len(q)}
ComponentIntents(items) == {CNone, CAbort} \cup {CAccept(i) : i \in items}

TryOracles ==
    {[AllOk EXCEPT !.loadEnvOk = a, !.readOk = b] : a, b \in BOOLEAN}
TargetOracles ==
    {[AllOk EXCEPT !.envsOk = a, !.setTargetOk = b] : a, b \in BOOLEAN}
EditOracles ==
    {o \in Oracle : o.loadEnvOk /\ o.readOk /\ o.envsOk /\ o.setTargetOk}
OraclesFor(intent) ==
    CASE intent.tag = "PrepareRequest" -> TryOracles
      [] intent.tag \in {"SelectTarget", "AcceptSelectTarget"} -> TargetOracles
      [] intent.tag = "EditRequest" -> EditOracles
      [] OTHER -> {AllOk}

(***************************************************************************)
(* App::run: screen.enter, then per iteration the check of the handle and  *)
(* the draw, then process_events with the loop over intents.               *)
(***************************************************************************)
ROk == [tag |-> "Ok"]
RErr(from) == [tag |-> "Err", from |-> from]

App ==
    [state |-> state, error |-> error, should_quit |-> should_quit,
     target |-> target, tasks |-> tasks, persistedTarget |-> persistedTarget,
     screen |-> screen, calls |-> << >>]

\* The key of an event: what the component in front makes of it (ci) and
\* what mapkey makes of it (km).
Key(ci, km) == [ci |-> ci, km |-> km]

\* The App when handle_event is entered with `key`.
AppOn(key) ==
    Called(App, [fn |-> "handle_event", state |-> state, key |-> key])

\* The App after a step of the loop; `while !self.should_quit` follows.
Commit(app) ==
    /\ state' = app.state
    /\ error' = app.error
    /\ should_quit' = app.should_quit
    /\ target' = app.target
    /\ tasks' = app.tasks
    /\ persistedTarget' = app.persistedTarget
    /\ screen' = app.screen
    /\ calls' = app.calls
    /\ rpc' = IF app.should_quit THEN "leave" ELSE "top"
    /\ UNCHANGED << output_view, data, runResult >>

Return(res) ==
    /\ rpc' = "returned"
    /\ runResult' = res

Enter ==
    /\ rpc = "enter"
    /\ \E ok \in BOOLEAN :
          IF ok THEN /\ screen' = TRUE
                     /\ rpc' = "top"
                     /\ UNCHANGED runResult
                ELSE /\ Return(RErr("screen.enter"))
                     /\ UNCHANGED screen
    /\ calls' = << >>
    /\ UNCHANGED << state, error, should_quit, target, output_view, tasks,
                    data, persistedTarget >>
    /\ UNCHANGED mainVars

\* The handle is awaited without asking is_finished first: the loop waits
\* for the task.
CheckHandleAwaits ==
    /\ rpc = "top"
    /\ state.tag = "RunningRequest" => IsFinished(tasks[state.handle])
    /\ calls' = << >>
    /\ \E drawOk \in BOOLEAN :
          LET finished == state.tag = "RunningRequest"
          IN IF finished /\ tasks[state.handle].pc = "failed"
             THEN /\ Return(RErr("handle"))
                  /\ UNCHANGED << state, output_view >>
             ELSE /\ IF finished
                     THEN /\ output_view' = Some(state.handle)
                          /\ state' = Idle
                     ELSE UNCHANGED << state, output_view >>
                  /\ IF drawOk
                     THEN rpc' = "events" /\ UNCHANGED runResult
                     ELSE Return(RErr("draw"))
    /\ UNCHANGED << error, should_quit, target, tasks, data,
                    persistedTarget, screen >>
    /\ UNCHANGED mainVars

\* Lines 148-156: a finished handle is awaited, then the frame is drawn.
CheckHandle ==
    /\ rpc = "top"
    /\ calls' = << >>
    /\ \E drawOk \in BOOLEAN :
          LET finished == /\ state.tag = "RunningRequest"
                          /\ IsFinished(tasks[state.handle])
          IN IF finished /\ tasks[state.handle].pc = "failed"
             THEN /\ Return(RErr("handle"))
                  /\ UNCHANGED << state, output_view >>
             ELSE /\ IF finished
                     THEN /\ output_view' = Some(state.handle)
                          /\ state' = Idle
                     ELSE UNCHANGED << state, output_view >>
                  /\ IF drawOk
                     THEN rpc' = "events" /\ UNCHANGED runResult
                     ELSE Return(RErr("draw"))
    /\ UNCHANGED << error, should_quit, target, tasks, data,
                    persistedTarget, screen >>
    /\ UNCHANGED mainVars

\* process_events: event::poll or event::read fails.
PollError ==
    /\ rpc = "events"
    /\ Return(RErr("event"))
    /\ calls' = << >>
    /\ UNCHANGED << state, error, should_quit, target, output_view, tasks,
                    data, persistedTarget, screen >>
    /\ UNCHANGED mainVars

\* process_events: the poll times out, or the event is no key press.
NoEvent ==
    /\ rpc = "events"
    /\ Commit(App)
    /\ UNCHANGED mainVars

\* A step of the loop that handles a key: handle_event, then the intents.
KeyStep(h) ==
    \E o \in OraclesFor(h.intent) : Commit(RunIntents(h.app, h.intent, o))

SpawnAllowed == Len(tasks) < MaxTasks

KeyIdle ==
    /\ rpc = "events"
    /\ state.tag = "Idle"
    /\ \E sel \in ComponentIntents(Files), km \in KeyMappings :
          /\ sel.tag = "Accept" => SpawnAllowed
          /\ KeyStep(HandleIdle(AppOn(Key(sel, km)), sel, km))
    /\ UNCHANGED mainVars

KeyPendingSelect ==
    /\ rpc = "events"
    /\ state.tag = "PendingValue"
    /\ state.pending_state.tag = "Select"
    /\ \E ci \in ComponentIntents(SeqRange(state.pending_state.values)) :
          /\ ci.tag = "Accept" =>
                SpawnAllowed /\ Len(state.pending_options) < MaxOptions
          /\ KeyStep(HandlePendingSelect(AppOn(Key(ci, "Other")), ci))
    /\ UNCHANGED mainVars

PromptAnswers(fallback) ==
    PromptInputs \cup (IF fallback = None THEN {} ELSE {fallback.v})

KeyPendingPrompt ==
    /\ rpc = "events"
    /\ state.tag = "PendingValue"
    /\ state.pending_state.tag = "Prompt"
    /\ \E ci \in ComponentIntents(PromptAnswers(state.pending_state.fallback)) :
          /\ ci.tag = "Accept" =>
                SpawnAllowed /\ Len(state.pending_options) < MaxOptions
          /\ KeyStep(HandlePendingPrompt(AppOn(Key(ci, "Other")), ci))
    /\ UNCHANGED mainVars

KeyRunningRequest ==
    /\ rpc = "events"
    /\ state.tag = "RunningRequest"
    /\ \E km \in KeyMappings :
          KeyStep(HandleRunningRequest(AppOn(Key(CNone, km)), km))
    /\ UNCHANGED mainVars

KeySelectTarget ==
    /\ rpc = "events"
    /\ state.tag = "SelectTarget"
    /\ \E ci \in ComponentIntents(state.items) :
          KeyStep(HandleSelectTarget(AppOn(Key(ci, "Other")), ci))
    /\ UNCHANGED mainVars

Leave ==
    /\ rpc = "leave"
    /\ \E ok \in BOOLEAN :
          IF ok THEN screen' = FALSE /\ Return(ROk)
                ELSE UNCHANGED screen /\ Return(RErr("screen.leave"))
    /\ calls' = << >>
    /\ UNCHANGED << state, error, should_quit, target, output_view, tasks,
                    data, persistedTarget >>
    /\ UNCHANGED mainVars

(***************************************************************************)
(* make_request of app.rs, the body of the spawned task.  The task runs on *)
(* a worker thread; an abort takes effect only where it is suspended at an *)
(* await (the transport call, the read of the body).  What follows the     *)
(* decoded body has no await and runs to the end.  The tasks stop with the *)
(* process, when App::run has returned.                                    *)
(***************************************************************************)
TaskStep(h, t) ==
    /\ rpc # "returned"
    /\ tasks' = [tasks EXCEPT ![h] = t]
    /\ calls' = << >>
    /\ UNCHANGED << state, error, should_quit, target, output_view,
                    persistedTarget, screen, rpc, runResult >>
    /\ UNCHANGED mainVars

\* The task returns: its locals are dropped.
Finished(t, pc) == [t EXCEPT !.pc = pc, !.json = None, !.vars = << >>]

\* build_client, do_request(...).await and the response headers.
TaskTransport ==
    \E h \in 1..Len(tasks) :
        /\ tasks[h].pc = "transport"
        /\ \E outcome \in {"err", "badheader", "ok"} :
              TaskStep(h, [tasks[h] EXCEPT
                  !.responded = (outcome # "err"),
                  !.pc = IF outcome = "ok" THEN "json" ELSE "failed"])
        /\ UNCHANGED data

\* res.json().await: a body that does not decode ends the task with Ok.
TaskJson ==
    \E h \in 1..Len(tasks) :
        /\ tasks[h].pc = "json"
        /\ \E decoded \in BOOLEAN,
              body \in {None} \cup {Some(v) : v \in ExtractVals} :
              TaskStep(h, IF decoded
                          THEN [tasks[h] EXCEPT !.json = body,
                                                !.pc = "load_env"]
                          ELSE Finished(tasks[h], "done"))
        /\ UNCHANGED data

TaskLoadEnv ==
    \E h \in 1..Len(tasks) :
        /\ tasks[h].pc = "load_env"
        /\ \E ok \in BOOLEAN :
              TaskStep(h, IF ok THEN [tasks[h] EXCEPT !.pc = "extract"]
                                ELSE Finished(tasks[h], "failed"))
        /\ UNCHANGED data

TaskExtract ==
    \E h \in 1..Len(tasks) :
        /\ tasks[h].pc = "extract"
        /\ \E ok \in BOOLEAN :
              TaskStep(h, IF ok
                          THEN [tasks[h] EXCEPT
                                  !.vars = extract_variables(tasks[h].json),
                                  !.pc = "update"]
                          ELSE Finished(tasks[h], "failed"))
        /\ UNCHANGED data

TaskUpdateData ==
    \E h \in 1..Len(tasks) :
        /\ tasks[h].pc = "update"
        /\ \E ok \in BOOLEAN :
              /\ TaskStep(h, Finished(tasks[h],
                                       IF ok THEN "done" ELSE "failed"))
              /\ data' = IF ok THEN update_data(data, tasks[h].vars) ELSE data

(***************************************************************************)
(* The terminal front-end: App::new, then App::run beside its tasks.       *)
(***************************************************************************)
InitDisk ==
    /\ data = EmptyData
    /\ persistedTarget = "dev"

InitApp ==
    /\ state = Idle
    /\ error = None
    /\ should_quit = FALSE
    /\ target = persistedTarget
    /\ output_view = None
    /\ tasks = << >>
    /\ screen = FALSE
    /\ rpc = "enter"
    /\ runResult = None
    /\ calls = << >>

NoArgs ==
    [name |-> FALSE, batch |-> FALSE, watch |-> FALSE, repeat |-> FALSE,
     select |-> FALSE, non_interactive |-> FALSE]

\* main has not been started.
MainIdle ==
    /\ args = NoArgs
    /\ mpc = "off"
    /\ result = None
    /\ mainEnv = EmptyData
    /\ chan = << >>
    /\ watcherQ = << >>
    /\ notifs = << >>
    /\ runs = << >>
    /\ cancelled = "nowhere"

Init == InitDisk /\ InitApp /\ MainIdle

Next ==
    \/ Enter
    \/ CheckHandle
    \/ PollError
    \/ NoEvent
    \/ KeyIdle
    \/ KeyPendingSelect
    \/ KeyPendingPrompt
    \/ KeyRunningRequest
    \/ KeySelectTarget
    \/ Leave
    \/ TaskTransport
    \/ TaskJson
    \/ TaskLoadEnv
    \/ TaskExtract
    \/ TaskUpdateData

Spec == Init /\ [][Next]_vars

(***************************************************************************)
(* Properties of the terminal front-end.                                   *)
(***************************************************************************)
Handles == 1..Len(tasks)
CallsOf(fn) == {i \in 1..Len(calls) : calls[i].fn = fn}
\* The tasks that are neither finished nor aborted.
InFlight == {h \in Handles : ~IsFinished(tasks[h]) /\ ~tasks[h].aborted}
\* The tasks that can still reach update_data.
CanStillWrite(t) ==
    t.pc \in {"transport", "json", "load_env", "extract", "update"}

\* C1: at every moment at most one task is neither finished nor aborted,
\* and a task is spawned only by send_request after try_request, in a step
\* that handles a key in the Idle or PendingValue state.
C1_OneTaskInFlight ==
    /\ [](Cardinality(InFlight) <= 1)
    /\ [][Len(tasks') # Len(tasks) =>
            /\ Len(tasks') = Len(tasks) + 1
            /\ state.tag \in {"Idle", "PendingValue"}
            /\ CallsOf("spawn")' # {}
            /\ CallsOf("load_env")' # {}]_vars

\* A second task is spawned while the first, aborted in its last part, runs.
C1_Witness ==
    /\ Len(tasks) = 2
    /\ tasks[1].aborted
    /\ ~IsFinished(tasks[1])
    /\ InFlight = {2}
    /\ state = RunningRequest(2)

\* C2: after an abort in RunningRequest the persisted layer is what it was
\* when the aborted request was sent (as long as no later request is sent).
C2_AbortLeavesPersistedData ==
    \A h \in Handles :
        (tasks[h].aborted /\ h = Len(tasks)) => data = tasks[h].dataAtSend

\* C3: no load_env of try_request runs while a task spawned before it can
\* still write the persisted layer.
C3_WritesBeforeLaterReads ==
    CallsOf("load_env") # {} =>
        \A h \in Handles :
            CanStillWrite(tasks[h]) =>
                (CallsOf("spawn") # {} /\ h = Len(tasks))

\* C4: a task that failed after the transport call returned a response does
\* not make App::run return an error.
C4_LateFailureKeepsRunning ==
    ~(/\ rpc = "returned"
      /\ runResult = RErr("handle")
      /\ state.tag = "RunningRequest"
      /\ tasks[state.handle].responded)

\* The step just taken handled an Accept of the popup of PendingValue.
AcceptedInPending ==
    /\ calls # << >>
    /\ calls[1].fn = "handle_event"
    /\ calls[1].state.tag = "PendingValue"
    /\ calls[1].key.ci.tag = "Accept"

\* The value the accepted item stands for (None: a table without `value`).
AcceptedItemValue ==
    IF calls[1].state.pending_state.tag = "Select"
    THEN AcceptedValue(calls[1].key.ci.item)
    ELSE Some(calls[1].key.ci.item)

\* The step appended one pair for the pending key and called load_env and
\* substitute with the whole list, which the state keeps.
AppendedAndResolved(value) ==
    LET before == calls[1].state.pending_options
        whole == Append(before, << calls[1].state.key, value >>)
    IN /\ \E i \in CallsOf("load_env") : calls[i].options = whole
       /\ \A i \in CallsOf("load_env") : calls[i].options = whole
       /\ \A i \in CallsOf("substitute") :
             \A j \in 1..Len(whole) :
                calls[i].env[whole[j][1]] = OverrideOf(whole, whole[j][1])
       /\ state.tag = "PendingValue" => state.pending_options = whole

\* C10 as written: every accepted answer or selection appends one pair and
\* resolves again with the whole list.
C10_EveryAcceptAppends ==
    AcceptedInPending =>
        /\ AcceptedItemValue # None
        /\ AppendedAndResolved(AcceptedItemValue.v)

\* C10, amended: every accepted answer, and every accepted selection whose
\* candidate yields a value, appends one pair for the pending key and
\* resolves again with the whole list, earlier overrides kept in order; the
\* selection of a table without `value` appends nothing and resolves nothing.
C10_AcceptWithValueAppends ==
    AcceptedInPending =>
        IF AcceptedItemValue # None
        THEN AppendedAndResolved(AcceptedItemValue.v)
        ELSE /\ CallsOf("load_env") = {}
             /\ state = calls[1].state

\* A second round: an answer is appended to an override kept from round one.
C10_Witness ==
    /\ AcceptedInPending
    /\ Len(calls[1].state.pending_options) = 1
    /\ calls[1].state.key # calls[1].state.pending_options[1][1]
    /\ \E i \in CallsOf("substitute") : TRUE
    /\ CallsOf("spawn") # {}

\* The names an override list has entries for, the names of a template.
OptionNames(options) == {options[i][1] : i \in 1..Len(options)}
TemplateNames(file_path) ==
    {Template(file_path)[i].name : i \in 1..Len(Template(file_path))}

\* C11: a session asks for a value at most once per placeholder name: while
\* the popup asks for a name, that name has no entry in the override list,
\* and the list is shorter than the number of names of the template.
C11_AsksOncePerName ==
    state.tag = "PendingValue" =>
        /\ state.key \notin OptionNames(state.pending_options)
        /\ Len(state.pending_options)
              < Cardinality(TemplateNames(state.file_path))

\* The step just taken handled a key.
KeyHandled == calls # << >> /\ calls[1].fn = "handle_event"

\* The request file of the session the step just taken belongs to.
StepFile ==
    IF calls[1].state.tag = "PendingValue" THEN calls[1].state.file_path
    ELSE calls[1].key.ci.item

\* What the substitute call at position j of the step returned.
SubstituteResult(j) == substitute(Template(StepFile), calls[j].env)

\* C12: a task is spawned only with the text of a successful substitute
\* call of the same step; when substitute fails, the step spawns nothing and
\* does not enter RunningRequest: ValueNotFound leaves a Prompt seeded with
\* the fallback, MultipleValuesFound a Select over the candidates, any other
\* error the state as it was with the error shown.
C12_SpawnOnlySubstituted ==
    /\ \A i \in CallsOf("spawn") :
          /\ KeyHandled
          /\ calls[i].file_path = StepFile
          /\ \E j \in CallsOf("substitute") :
                /\ j < i
                /\ SubstituteResult(j).tag = "Ok"
                /\ SubstituteResult(j).text = calls[i].buf
          /\ state = RunningRequest(Len(tasks))
    /\ \A j \in CallsOf("substitute") :
          LET res == SubstituteResult(j)
              options == calls[j - 1].options
          IN /\ calls[j - 1].fn = "load_env"
             /\ (res.tag = "Ok") = (CallsOf("spawn") # {})
             /\ res.tag # "Ok" => state.tag # "RunningRequest"
             /\ res.tag = "ValueNotFound" =>
                   /\ state = PendingValue(StepFile, res.key, options,
                                           PromptState(res.fallback))
                   /\ error = None
             /\ res.tag = "MultipleValuesFound" =>
                   /\ state = PendingValue(StepFile, res.key, options,
                                           SelectState(res.values))
                   /\ error = None
             /\ res.tag = "Other" =>
                   /\ state.tag = calls[1].state.tag
                   /\ error = Some("substitute")

\* The second round of a session: the first answer is in the list, the next
\* placeholder has no value, and the prompt is seeded with its fallback.
C12_Witness ==
    /\ CallsOf("substitute") # {}
    /\ CallsOf("spawn") = {}
    /\ state.tag = "PendingValue"
    /\ state.key = "token"
    /\ state.pending_options # << >>
    /\ state.pending_state = PromptState(Some("dflt"))

\* The step just taken handled `ci` in the select-target popup.
SelectTargetHandled(ci) ==
    /\ calls' # << >>
    /\ calls'[1].fn = "handle_event"
    /\ calls'[1].state.tag = "SelectTarget"
    /\ calls'[1].key.ci = ci

\* The target changes only by an accepted entry of the popup, to that entry
\* and together with the persisted pointer; a step of the popup that ends
\* with an error shown (set_target failed) or that handled an Abort leaves
\* both as they were.
TargetChangesByAccept ==
    /\ (target' # target \/ persistedTarget' # persistedTarget) =>
          /\ state.tag = "SelectTarget"
          /\ SelectTargetHandled(CAccept(target'))
          /\ persistedTarget' = target'
          /\ error' = None
          /\ state' = Idle
    /\ (state.tag = "SelectTarget" /\ error' # None) =>
          (target' = target /\ persistedTarget' = persistedTarget)
    /\ SelectTargetHandled(CAbort) =>
          (target' = target /\ persistedTarget' = persistedTarget
           /\ state' = Idle)

\* C13: the target changes only when an entry of the select-target popup is
\* accepted and set_target succeeded, and App.target is always the target
\* persisted last.
C13_TargetFollowsSetTarget ==
    /\ [](target = persistedTarget)
    /\ [][TargetChangesByAccept]_vars

\* set_target failed for an entry that is not the target: the error is
\* shown, the popup stays and the target is as it was.
C13_Witness ==
    /\ KeyHandled
    /\ calls[1].state.tag = "SelectTarget"
    /\ calls[1].key.ci = CAccept("prod")
    /\ state.tag = "SelectTarget"
    /\ error = Some("io")
    /\ target = "dev"

\* A transport task is running: the state holds its unfinished handle.
RequestRunning ==
    state.tag = "RunningRequest" /\ ~IsFinished(tasks[state.handle])

\* The loop takes the result of the handle (shows it, or returns its error)
\* only when the task has finished; at the top of an iteration with the task
\* running it leaves the state alone and goes on to the draw and the events.
AwaitsOnlyFinished ==
    /\ (/\ state.tag = "RunningRequest"
        /\ \/ output_view' # output_view
           \/ (rpc' = "returned" /\ runResult' = RErr("handle")))
          => IsFinished(tasks[state.handle])
    /\ (RequestRunning /\ rpc = "top" /\ rpc' # rpc) =>
          /\ state' = state
          /\ rpc' = "events" \/ runResult' = RErr("draw")

\* The Abort key is handled now: the task is aborted and the state is Idle.
AbortHandled ==
    /\ KeyRunningRequest
    /\ state' = Idle
    /\ tasks'[state.handle].aborted

\* C15: the loop never waits for a running task: the top of an iteration
\* can always be passed, the handle is awaited only once it has finished,
\* and while the task runs an Abort key can be handled.
C15_LoopNeverBlocksOnTask ==
    /\ [](rpc = "top" => ENABLED CheckHandle)
    /\ []((rpc = "events" /\ RequestRunning) => ENABLED AbortHandled)
    /\ [][AwaitsOnlyFinished]_vars

\* An Abort key was handled while the task waited for the transport.
C15_Witness ==
    /\ KeyHandled
    /\ calls[1].state.tag = "RunningRequest"
    /\ calls[1].key.km = "Abort"
    /\ tasks[calls[1].state.handle].pc = "cancelled"
    /\ ~tasks[calls[1].state.handle].responded
    /\ state = Idle

\* The step just taken handled an Abort of the popup of PendingValue.
AbortedInPending ==
    /\ KeyHandled
    /\ calls[1].state.tag = "PendingValue"
    /\ calls[1].key.ci = CAbort

\* The step that handles an Abort in PendingValue writes nothing to disk
\* and touches no task.
AbortInPendingWritesNothing ==
    AbortedInPending' =>
        /\ data' = data
        /\ persistedTarget' = persistedTarget
        /\ tasks' = tasks

\* C16: an Abort in PendingValue leaves Idle, no error, nothing resolved or
\* sent and nothing persisted; a session started from Idle resolves with an
\* empty override list, whatever the aborted session had gathered.
C16_AbortDropsSession ==
    /\ [](AbortedInPending =>
            /\ state = Idle
            /\ error = None
            /\ Len(calls) = 1)
    /\ []((KeyHandled /\ calls[1].state.tag = "Idle") =>
            /\ \A i \in CallsOf("load_env") : calls[i].options = << >>
            /\ state.tag = "PendingValue" => state.pending_options = << >>)
    /\ [][AbortInPendingWritesNothing]_vars

\* The prompt of the second round is aborted: one override is dropped.
C16_Witness ==
    /\ AbortedInPending
    /\ calls[1].state.pending_state.tag = "Prompt"
    /\ calls[1].state.pending_options # << >>
    /\ state = Idle

\* The step just taken handled an Accept of `item` in the Select popup.
SelectAccepted(item) ==
    /\ AcceptedInPending
    /\ calls[1].state.pending_state.tag = "Select"
    /\ calls[1].key.ci.item = item

\* The step appended (pending key, value) and resolved with the new list.
AppendedOverride(value) ==
    \E i \in CallsOf("load_env") :
        calls[i].options = Append(calls[1].state.pending_options,
                                  << calls[1].state.key, value >>)

\* C17: the override of an accepted candidate is the string of its `value`
\* field, or the textual form of a `value` that is no string, or the textual
\* form of a candidate that is no table; a table without `value` appends
\* nothing, shows "Replacement not found: <key>" and leaves the state as is.
C17_AcceptedCandidateValue ==
    \A item \in SeqRange(Candidates) :
        SelectAccepted(item) =>
            CASE item.k = "Table" /\ item.value.k = "String" ->
                    AppendedOverride(item.value.s)
              [] item.k = "Table" /\ item.value.k = "Absent" ->
                    /\ CallsOf("load_env") = {}
                    /\ error = Some("Replacement not found: "
                                    \o calls[1].state.key)
                    /\ state = calls[1].state
              [] item.k = "Table" -> AppendedOverride(to_string(item.value))
              [] OTHER -> AppendedOverride(to_string(item))

\* The candidate whose `value` is the integer 7 was accepted.
C17_Witness ==
    /\ SelectAccepted(Tbl(Str("num"), Int("7")))
    /\ AppendedOverride("7")

\* Whether a list of overrides names no placeholder twice.
OneEntryPerName(options) ==
    \A i, j \in 1..Len(options) : options[i][1] = options[j][1] => i = j

\* C19: the override list of a session, as the state holds it and as it is
\* passed to load_env, has at most one entry per placeholder name.
C19_OneOverridePerName ==
    /\ state.tag = "PendingValue" => OneEntryPerName(state.pending_options)
    /\ \A i \in CallsOf("load_env") : OneEntryPerName(calls[i].options)

\* C20: when App::run has returned after screen.enter() succeeded, the
\* screen is no longer entered (unless screen.leave() itself failed).
C20_ReturnsAfterLeave ==
    (/\ rpc = "returned"
     /\ runResult # RErr("screen.enter")
     /\ runResult # RErr("screen.leave")) => ~screen

\* The step just taken handled an Abort key outside the Idle state.
AbortedOutsideIdle ==
    /\ KeyHandled
    /\ calls[1].state.tag # "Idle"
    /\ \/ calls[1].key.ci = CAbort
       \/ calls[1].key.km = "Abort"

\* should_quit is set by a step that handles the Abort key in Idle, with no
\* task in flight that was not aborted.
QuitsFromIdle ==
    (should_quit' # should_quit) =>
        /\ should_quit'
        /\ state = Idle
        /\ InFlight = {}
        /\ KeyHandled'
        /\ calls'[1].key.km = "Abort"

\* C21: should_quit is set only from Idle; an Abort key in PendingValue,
\* SelectTarget or RunningRequest leaves Idle and does not quit; the
\* application never quits with a task in flight that was not aborted.
C21_QuitOnlyFromIdle ==
    /\ [](AbortedOutsideIdle => (state = Idle /\ ~should_quit))
    /\ [](should_quit => (state = Idle /\ InFlight = {}))
    /\ [][QuitsFromIdle]_vars

\* A request was aborted, and the next Abort key, in Idle, quits.
C21_Witness ==
    /\ should_quit
    /\ KeyHandled
    /\ calls[1].state = Idle
    /\ tasks # << >>
    /\ tasks[Len(tasks)].aborted

\* The dispatches of the loop over pending intents, in order: the intent,
\* the App before it and what dispatch returned.
RECURSIVE Dispatches(_, _, _)
Dispatches(app, pending_intent, o) ==
    IF pending_intent = NoIntent THEN << >>
    ELSE LET r == dispatch(app, pending_intent, o)
         IN << [intent |-> pending_intent, before |-> app, res |-> r] >>
            \o Dispatches(r.app, IF r.ok THEN r.next ELSE ShowError(r.err), o)

\* What handle_event can return in the present state, for every key.
Handlings ==
    CASE state.tag = "Idle" ->
            {HandleIdle(AppOn(Key(sel, km)), sel, km) :
                sel \in ComponentIntents(Files), km \in KeyMappings}
      [] state.tag = "RunningRequest" ->
            {HandleRunningRequest(AppOn(Key(CNone, km)), km) :
                km \in KeyMappings}
      [] state.tag = "SelectTarget" ->
            {HandleSelectTarget(AppOn(Key(ci, "Other")), ci) :
                ci \in ComponentIntents(state.items)}
      [] state.pending_state.tag = "Select" ->
            {HandlePendingSelect(AppOn(Key(ci, "Other")), ci) :
                ci \in ComponentIntents(
                          SeqRange(state.pending_state.values))}
      [] OTHER ->
            {HandlePendingPrompt(AppOn(Key(ci, "Other")), ci) :
                ci \in ComponentIntents(
                          PromptAnswers(state.pending_state.fallback))}

\* The chain of intents that starts with `h` under `o`: an error of a
\* dispatch is followed by ShowError with its message, which ends the
\* chain with the message stored, the state as before the failing intent
\* and should_quit unset; a ChangeState clears the stored error; the chain
\* is at most three dispatches long.
ChainShowsErrors(h, o) ==
    LET ch == Dispatches(h.app, h.intent, o)
        final == RunIntents(h.app, h.intent, o)
    IN /\ Len(ch) <= 3
       /\ \A i \in 1..Len(ch) :
             /\ ~ch[i].res.ok =>
                   /\ Len(ch) = i + 1
                   /\ ch[i + 1].intent = ShowError(ch[i].res.err)
                   /\ final.error = Some(ch[i].res.err)
                   /\ final.state = ch[i].before.state
                   /\ final.should_quit = should_quit
             /\ ch[i].intent.tag = "ChangeState" =>
                   ch[i].res.app.error = None

\* C22: whenever the loop waits for an event, whatever key comes next and
\* whatever fails while its intents are dispatched, the error is shown, the
\* state is the one before the failing intent, the loop goes on, and the
\* chain of intents is finite; a ChangeState clears the error.
C22_DispatchErrorsShown ==
    rpc = "events" =>
        \A h \in Handlings : \A o \in OraclesFor(h.intent) :
            ChainShowsErrors(h, o)

\* load_env failed after an accepted answer: the error is shown, the popup
\* is still there and the loop goes on.
C22_Witness ==
    /\ AcceptedInPending
    /\ CallsOf("load_env") # {}
    /\ CallsOf("substitute") = {}
    /\ error = Some("io")
    /\ state.tag = "PendingValue"
    /\ rpc = "top"

(***************************************************************************)
(* The command line front-end: main and watch_mode of main.rs.  A run of   *)
(* the command line make_request is in flight between the action that      *)
(* starts it and the action that ends it.                                  *)
(***************************************************************************)
\* mpsc::channel(1)
ChannelCapacity == 1

Args ==
    [name : BOOLEAN, batch : BOOLEAN, watch : BOOLEAN, repeat : BOOLEAN,
     select : BOOLEAN, non_interactive : BOOLEAN]

\* set_interactive_mode(!(args.non_interactive || args.watch))
Interactive == ~(args.non_interactive \/ args.watch)

CancelKinds == {"OperationCanceled", "OperationInterrupted"}

is_user_cancelation(e) ==
    \/ e = RErr("OperationCanceled")
    \/ e = RErr("OperationInterrupted")

\* How a run of make_request can end: Ok, an error, and, where prompts are
\* shown, the cancellation of a prompt.
RunResults ==
    {ROk, RErr("request")}
        \cup (IF Interactive THEN {RErr(k) : k \in CancelKinds} ELSE {})

\* A run as it starts: the environment it is given, and the environment a
\* load_env at this moment returns.
NewRun(trigger, given) ==
    [trigger |-> trigger, used |-> given,
     fresh |-> LoadEnv(<< >>, data, persistedTarget),
     res |-> None, logged |-> FALSE]

\* The match at the end of main: a cancellation becomes Ok.
FinalResult(res) ==
    /\ mpc' = "returned"
    /\ result' = IF is_user_cancelation(res) THEN ROk ELSE res

\* A `?` in main: the error is main's result as it is.
MainReturn(res) ==
    /\ mpc' = "returned"
    /\ result' = res

\* The end of the run in flight: its result, whether the caller logs it,
\* and what its extraction persists.
EndRun(res, logged) ==
    /\ runs' = [runs EXCEPT ![Len(runs)].res = res,
                            ![Len(runs)].logged = logged]
    /\ cancelled' = IF is_user_cancelation(res) THEN "request" ELSE cancelled
    /\ IF res = ROk
       THEN \E body \in {None} \cup {Some(v) : v \in ExtractVals} :
               data' = update_data(data, extract_variables(body))
       ELSE UNCHANGED data

\* find_root_dir or current_dir fails, or no hitman.toml is found.
MainSetupFails ==
    /\ mpc = "start"
    /\ MainReturn(RErr("setup"))
    /\ UNCHANGED << args, mainEnv, chan, watcherQ, notifs, runs, cancelled,
                    data, persistedTarget >>
    /\ UNCHANGED appVars

\* --select: select_env(&root_dir)?; return Ok(())
MainSelect ==
    /\ mpc = "start"
    /\ args.select
    /\ \E res \in {ROk, RErr("io")} \cup {RErr(k) : k \in CancelKinds} :
          /\ MainReturn(res)
          /\ IF res = ROk THEN persistedTarget' \in Targets
                           ELSE UNCHANGED persistedTarget
          /\ cancelled' = IF is_user_cancelation(res) THEN "select_env"
                                                        ELSE cancelled
    /\ UNCHANGED << args, mainEnv, chan, watcherQ, notifs, runs, data >>
    /\ UNCHANGED appVars

\* A request file is named: load_env, then batch_requests or make_request.
MainNamed ==
    /\ mpc = "start"
    /\ ~args.select
    /\ args.name
    /\ \E loadOk \in BOOLEAN :
          IF ~loadOk
          THEN /\ MainReturn(RErr("load_env"))
               /\ UNCHANGED << mainEnv, runs >>
          ELSE /\ mainEnv' = LoadEnv(<< >>, data, persistedTarget)
               /\ UNCHANGED result
               /\ IF args.batch
                  THEN mpc' = "batch" /\ UNCHANGED runs
                  ELSE /\ mpc' = "first_run"
                       /\ runs' = Append(runs, NewRun("first", mainEnv'))
    /\ UNCHANGED << args, chan, watcherQ, notifs, cancelled, data,
                    persistedTarget >>
    /\ UNCHANGED appVars

\* batch_requests(...).await is the result.
BatchEnd ==
    /\ mpc = "batch"
    /\ \E res \in {ROk, RErr("request")} : FinalResult(res)
    /\ UNCHANGED << args, mainEnv, chan, watcherQ, notifs, runs, cancelled,
                    data, persistedTarget >>
    /\ UNCHANGED appVars

\* Lines 51-57: the first run ends; with --watch its result is dropped and
\* watch_mode sets up the watcher, otherwise it is the result.
FirstRunEnd ==
    /\ mpc = "first_run"
    /\ \E res \in RunResults :
          /\ EndRun(res, FALSE)
          /\ IF args.watch
             THEN \E watcherOk \in BOOLEAN :
                     IF watcherOk
                     THEN mpc' = "watch_wait" /\ UNCHANGED result
                     ELSE FinalResult(RErr("notify"))
             ELSE FinalResult(res)
    /\ UNCHANGED << args, mainEnv, chan, watcherQ, notifs, persistedTarget >>
    /\ UNCHANGED appVars

\* No request file is named: enter the loop of lines 60-91.
MainPicker ==
    /\ mpc = "start"
    /\ ~args.select
    /\ ~args.name
    /\ mpc' = "pick"
    /\ UNCHANGED << args, result, mainEnv, chan, watcherQ, notifs, runs,
                    cancelled, data, persistedTarget >>
    /\ UNCHANGED appVars

\* Lines 61-76: the picker is cancelled or fails, and `?` returns.
PickFails ==
    /\ mpc = "pick"
    /\ \E e \in {RErr("io")} \cup {RErr(k) : k \in CancelKinds} :
          /\ MainReturn(e)
          /\ cancelled' = IF is_user_cancelation(e) THEN "picker"
                                                      ELSE "nowhere"
    /\ UNCHANGED << args, mainEnv, chan, watcherQ, notifs, runs, data,
                    persistedTarget >>
    /\ UNCHANGED appVars

\* Lines 61-78: a request is picked, load_env, make_request starts.
PickSelected ==
    /\ mpc = "pick"
    /\ Len(runs) < MaxRuns
    /\ cancelled' = "nowhere"
    /\ \E loadOk \in BOOLEAN :
          IF ~loadOk
          THEN /\ MainReturn(RErr("load_env"))
               /\ UNCHANGED << mainEnv, runs >>
          ELSE /\ mainEnv' = LoadEnv(<< >>, data, persistedTarget)
               /\ runs' = Append(runs, NewRun("pick", mainEnv'))
               /\ mpc' = "pick_run"
               /\ UNCHANGED result
    /\ UNCHANGED << args, chan, watcherQ, notifs, data, persistedTarget >>
    /\ UNCHANGED appVars

\* With --repeat, a failed request ends the loop like a `break`.
PickRunEndBreaksOnError ==
    /\ mpc = "pick_run"
    /\ \E res \in RunResults :
          IF ~args.repeat \/ res = RErr("request")
          THEN EndRun(res, FALSE) /\ FinalResult(res)
          ELSE /\ EndRun(res, res # ROk /\ ~is_user_cancelation(res))
               /\ mpc' = "pick"
               /\ UNCHANGED result
    /\ UNCHANGED << args, mainEnv, chan, watcherQ, notifs, persistedTarget >>
    /\ UNCHANGED appVars

\* Lines 78-90: the run ends; without --repeat its result is the result,
\* with it an error that is no cancellation is logged and the loop goes on.
PickRunEnd ==
    /\ mpc = "pick_run"
    /\ \E res \in RunResults :
          IF ~args.repeat
          THEN EndRun(res, FALSE) /\ FinalResult(res)
          ELSE /\ EndRun(res, res # ROk /\ ~is_user_cancelation(res))
               /\ mpc' = "pick"
               /\ UNCHANGED result
    /\ UNCHANGED << args, mainEnv, chan, watcherQ, notifs, persistedTarget >>
    /\ UNCHANGED appVars

(***************************************************************************)
(* watch_mode: the watcher hands every result to its callback, which sends *)
(* the events into the channel and blocks while the channel is full; the   *)
(* loop receives one event at a time.                                      *)
(***************************************************************************)
WatchLoop == {"watch_wait", "watch_run"}

\* The file is touched: the watcher gets one more result.
Notify ==
    /\ mpc \in WatchLoop
    /\ Len(notifs) < MaxNotifs
    /\ \E kind \in {"Modify", "Access", "Error"} :
          /\ watcherQ' = Append(watcherQ, kind)
          /\ notifs' = Append(notifs,
                  [kind |-> kind,
                   during |-> IF mpc = "watch_run" THEN Len(runs) ELSE 0])
    /\ UNCHANGED << args, mpc, result, mainEnv, chan, runs, cancelled, data,
                    persistedTarget >>
    /\ UNCHANGED appVars

\* The callback sends into a channel without a bound.
WatcherCallbackUnbounded ==
    /\ watcherQ # << >>
    /\ IF Head(watcherQ) = "Error"
       THEN UNCHANGED chan
       ELSE chan' = Append(chan, Head(watcherQ))
    /\ watcherQ' = Tail(watcherQ)
    /\ UNCHANGED << args, mpc, result, mainEnv, notifs, runs, cancelled,
                    data, persistedTarget >>
    /\ UNCHANGED appVars

\* The callback, lines 145-149: an error is dropped, an event is sent with
\* blocking_send, which waits for room in the channel.
WatcherCallback ==
    /\ watcherQ # << >>
    /\ IF Head(watcherQ) = "Error"
       THEN UNCHANGED chan
       ELSE /\ Len(chan) < ChannelCapacity
            /\ chan' = Append(chan, Head(watcherQ))
    /\ watcherQ' = Tail(watcherQ)
    /\ UNCHANGED << args, mpc, result, mainEnv, notifs, runs, cancelled,
                    data, persistedTarget >>
    /\ UNCHANGED appVars

\* Lines 155-157: an event is received; a Modify starts a run with `env`.
WatchRecv ==
    /\ mpc = "watch_wait"
    /\ chan # << >>
    /\ chan' = Tail(chan)
    /\ IF Head(chan) = "Modify"
       THEN /\ mpc' = "watch_run"
            /\ runs' = Append(runs, NewRun("notify", mainEnv))
       ELSE UNCHANGED << mpc, runs >>
    /\ UNCHANGED << args, result, mainEnv, watcherQ, notifs, cancelled, data,
                    persistedTarget >>
    /\ UNCHANGED appVars

\* The run propagates its error with `?` instead of logging it.
AfterWatchRunPropagate(res) == IF res = ROk THEN "watch_wait" ELSE "returned"

\* Where watch_mode goes after a run: back to the top of the loop.
AfterWatchRun(res) == "watch_wait"

\* Lines 157-161: the run ends, its error is logged, the loop goes on.
WatchRunEnd ==
    /\ mpc = "watch_run"
    /\ \E res \in RunResults :
          /\ EndRun(res, res # ROk)
          /\ mpc' = AfterWatchRun(res)
          /\ result' = IF mpc' = "returned" THEN res ELSE result
    /\ UNCHANGED << args, mainEnv, chan, watcherQ, notifs, persistedTarget >>
    /\ UNCHANGED appVars

\* The terminal front-end is not running.
AppOff ==
    /\ state = Idle
    /\ error = None
    /\ should_quit = FALSE
    /\ target = persistedTarget
    /\ output_view = None
    /\ tasks = << >>
    /\ screen = FALSE
    /\ rpc = "off"
    /\ runResult = None
    /\ calls = << >>

InitMain ==
    /\ InitDisk
    /\ AppOff
    /\ args \in Args
    /\ mpc = "start"
    /\ result = None
    /\ mainEnv = EmptyData
    /\ chan = << >>
    /\ watcherQ = << >>
    /\ notifs = << >>
    /\ runs = << >>
    /\ cancelled = "nowhere"

NextMain ==
    \/ MainSetupFails
    \/ MainSelect
    \/ MainNamed
    \/ BatchEnd
    \/ FirstRunEnd
    \/ MainPicker
    \/ PickFails
    \/ PickSelected
    \/ PickRunEnd
    \/ Notify
    \/ WatcherCallback
    \/ WatchRecv
    \/ WatchRunEnd

SpecMain == InitMain /\ [][NextMain]_vars

(***************************************************************************)
(* Properties of the command line front-end.                               *)
(***************************************************************************)
Runs == 1..Len(runs)
NotifyRuns == {r \in Runs : runs[r].trigger = "notify"}
Modifies == {i \in 1..Len(notifs) : notifs[i].kind = "Modify"}
\* Nothing is pending: the loop waits and no event is on its way.
Quiescent == mpc = "watch_wait" /\ chan = << >> /\ watcherQ = << >>

\* C5: the Modify notifications that arrive while one run is in flight
\* cause one more run together; a notification that arrives while no run is
\* in flight causes one.  So, once nothing is pending, the runs are as many
\* as the notifications outside a run plus the runs that saw a notification.
C5_BurstIsOneRun ==
    Quiescent =>
        Cardinality(NotifyRuns) =
            Cardinality({i \in Modifies : notifs[i].during = 0})
            + Cardinality({r \in Runs :
                             \E i \in Modifies : notifs[i].during = r})

\* C6: a run triggered by a notification resolves against the environment
\* load_env returns at the time of the run.
C6_RunUsesFreshEnvironment ==
    \A r \in NotifyRuns : runs[r].used = runs[r].fresh

\* C7: once in the loop, watch_mode stays in it and main has no result; a
\* run that ends, failed or not, is followed by the wait for an event.
StaysInWatchLoop ==
    (mpc \in WatchLoop) =>
        /\ mpc' \in WatchLoop
        /\ result' = None
        /\ (mpc = "watch_run" /\ mpc' # mpc) => (mpc' = "watch_wait")

C7_WatchLoopNeverEnds == [][StaysInWatchLoop]_vars

\* A run triggered by a notification failed and the loop waits again.
C7_Witness ==
    /\ mpc = "watch_wait"
    /\ runs # << >>
    /\ runs[Len(runs)].trigger = "notify"
    /\ runs[Len(runs)].res = RErr("request")

\* C8: in watch mode, every run that failed, the first one and those the
\* notifications trigger, has its error logged.
C8_WatchErrorsLogged ==
    (args.watch /\ mpc \in WatchLoop) =>
        \A r \in Runs :
            (runs[r].res # None /\ runs[r].res # ROk) => runs[r].logged

\* C9: when the last prompt or selection the user saw (the picker, or a
\* prompt inside a request) was cancelled, main ends with Ok, and no
\* cancellation is ever logged.
C9_CancelEndsWithOk ==
    /\ (mpc = "returned" /\ cancelled \in {"picker", "request"}) =>
            result = ROk
    /\ \A r \in Runs : is_user_cancelation(runs[r].res) => ~runs[r].logged

\* The runs the picker loop has started.
PickerFlow == ~args.select /\ ~args.name

\* C14: the channel of watch_mode never holds more than one notification,
\* however many are raised while a run is in flight.
C14_ChannelHoldsOne == Len(chan) <= 1

\* Two notifications were raised during one run: one is in the channel,
\* and the callback waits with the next.
C14_Witness ==
    /\ mpc = "watch_run"
    /\ Len(chan) = 1
    /\ watcherQ # << >>
    /\ Head(watcherQ) # "Error"
    /\ Cardinality({i \in 1..Len(notifs) : notifs[i].during = Len(runs)}) >= 2

\* The result of the run that just ended.
EndedResult == runs'[Len(runs)].res

\* A step that ends a run started from the picker.
PickRunEnds ==
    (mpc = "pick_run" /\ mpc' # mpc) =>
        IF args.repeat
        THEN /\ mpc' = "pick"
             /\ result' = None
             /\ runs'[Len(runs)].logged =
                   (EndedResult # ROk /\ ~is_user_cancelation(EndedResult))
        ELSE /\ mpc' = "returned"
             /\ Len(runs) = 1
             /\ result' = IF is_user_cancelation(EndedResult) THEN ROk
                                                                ELSE EndedResult

\* C18 as written: without --repeat, when a request was picked and main
\* has returned, exactly one request was run and its result is the result
\* of main.
C18_OneRunIsResult ==
    (PickerFlow /\ ~args.repeat /\ mpc = "returned" /\ runs # << >>) =>
        /\ Len(runs) = 1
        /\ result = runs[1].res

\* C18, amended: with --repeat the end of every request, failed or not,
\* leads back to the picker, and an error that is no cancellation is
\* logged; without --repeat at most one request is run (none when the
\* picker or load_env fails), and the result of main is its result, with a
\* cancellation turned into Ok.
C18_PickerLoop ==
    /\ []((PickerFlow /\ ~args.repeat) => Len(runs) <= 1)
    /\ [][PickRunEnds]_vars

\* With --repeat, a request failed, was logged, and the next one was started.
C18_Witness ==
    /\ PickerFlow
    /\ args.repeat
    /\ Len(runs) = 2
    /\ runs[1].res = RErr("request")
    /\ runs[1].logged
    /\ mpc = "pick_run"

=============================================================================
